---- MODULE Spec2Model ----
(***************************************************************************)
(* A model of streamlit_app.py: the retrying Gemini call, the batched      *)
(* study-plan generator, the two line-oriented response parsers, and the   *)
(* Streamlit script around them: login, course creation, day navigation,   *)
(* the Tests screen and the Flashcards screen over st.session_state.       *)
(*                                                                         *)
(* A text is a sequence of atoms.  Every character the code inspects       *)
(* (a space, a newline, ".", ":", ")", the letters of a recognised prefix) *)
(* is an atom of its own; a day number is one atom holding its digits.     *)
(***************************************************************************)
EXTENDS Integers, Sequences, FiniteSets, TLC

(* ------------------------------ bounds -------------------------------- *)

\* largest max_retries argument explored for query_gemini_api
MaxRetries == 5
\* largest total_days argument explored for generate_study_plan_in_batches
MaxTotalDays == 65
\* number of blocks a question response is assembled from
MaxBlocks == 3
\* how far above the smallest allowed duration a new course may be asked for
MaxExtraDays == 1
\* most cards one generation returns, and most cards a deck is grown to
MaxDeck == 3
\* the latest day a course has been moved to when the Tests screen is opened
MaxStartDay == 4
\* most tests created for one course
MaxTests == 2
\* number of lines of a flashcard response
MaxCardLines == 4

(* ------------------------- program constants -------------------------- *)

\* def query_gemini_api(prompt, api_key, max_retries=3)
default_max_retries == 3
\* batch_size = 30
batch_size == 30

(* ----------------------------- str methods ---------------------------- *)

NL == "\n"
Whitespace == {" ", "\t", NL}

Min(a, b) == IF a < b THEN a ELSE b

RECURSIVE Pow2(_)
Pow2(n) == IF n = 0 THEN 1 ELSE 2 * Pow2(n - 1)

\* s[n:]
Drop(s, n) == IF n >= Len(s) THEN <<>> ELSE SubSeq(s, n + 1, Len(s))

\* s.startswith(p)
StartsWith(s, p) == Len(s) >= Len(p) /\ SubSeq(s, 1, Len(p)) = p

RECURSIVE LStrip(_)
LStrip(s) == IF s # <<>> /\ Head(s) \in Whitespace THEN LStrip(Tail(s)) ELSE s

RECURSIVE RStrip(_)
RStrip(s) ==
    IF s # <<>> /\ s[Len(s)] \in Whitespace
    THEN RStrip(SubSeq(s, 1, Len(s) - 1))
    ELSE s

\* s.strip()
Strip(s) == RStrip(LStrip(s))

\* the least i with s[i .. i+Len(sep)-1] = sep, or 0: s.find(sep) + 1
RECURSIVE FindFrom(_, _, _)
FindFrom(s, sep, i) ==
    IF i + Len(sep) - 1 > Len(s) THEN 0
    ELSE IF SubSeq(s, i, i + Len(sep) - 1) = sep THEN i
    ELSE FindFrom(s, sep, i + 1)

\* sep in s
Contains(s, sep) == FindFrom(s, sep, 1) # 0

\* s.split(sep): every piece, empty ones included
RECURSIVE Split(_, _)
Split(s, sep) ==
    LET i == FindFrom(s, sep, 1)
    IN  IF i = 0 THEN <<s>>
        ELSE <<SubSeq(s, 1, i - 1)>> \o Split(Drop(s, i + Len(sep) - 1), sep)

\* s.split(sep, 1)[1]: what follows the first sep (the caller checks sep in s)
SplitOnce1(s, sep) == Drop(s, FindFrom(s, sep, 1) + Len(sep) - 1)

\* '\n'.join(lines)
RECURSIVE JoinLines(_)
JoinLines(ls) ==
    IF ls = <<>> THEN <<>>
    ELSE IF Len(ls) = 1 THEN ls[1]
    ELSE ls[1] \o <<NL>> \o JoinLines(Tail(ls))

\* the concatenation of a sequence of sequences
RECURSIVE Flatten(_)
Flatten(ss) == IF ss = <<>> THEN <<>> ELSE Head(ss) \o Flatten(Tail(ss))

\* the sequences over S of length 0 .. n
SeqsUpTo(S, n) == UNION {[1..k -> S] : k \in 0..n}

(* ------------------------------ exceptions ---------------------------- *)

NoExc == [type |-> "", msg |-> "", cause |-> ""]
Exc(t, m, c) == [type |-> t, msg |-> m, cause |-> c]

\* the names bound at module level when query_gemini_api runs
ModuleGlobals == {"st", "requests", "datetime", "json", "os", "genai", "random"}
NameDefined(n) == n \in ModuleGlobals

(* ------------------------------- state -------------------------------- *)

VARIABLES
    pc,               \* the position of the routine being run
    \* query_gemini_api
    max_retries, attempt, op, calls, slept, q_status, q_text, q_exc,
    \* generate_study_plan_in_batches
    requested_days, total_days, current_day, study_plan, prompts, errors, ret,
    \* parse_test_questions / parse_flashcards
    text, lines, idx, questions, current_question, flashcards, current_card,
    raised, result,
    \* a caller that parses several responses in turn
    parser, inputs, history,
    \* the Streamlit script: st.session_state, the session files on disk,
    \* the sidebar radio, what the last run put on the page, and the course
    \* a running create_new_course was asked for
    session_state, files, menu, shown, course

qvars == <<max_retries, attempt, op, calls, slept, q_status, q_text, q_exc>>
gvars == <<requested_days, total_days, current_day, study_plan, prompts, errors, ret>>
pvars == <<text, lines, idx, questions, current_question, flashcards,
           current_card, raised, result>>
hvars == <<parser, inputs, history>>
\* what the routines above never touch
avars == <<session_state, files, menu, shown, course>>
xvars == <<hvars, avars>>
vars == <<pc, qvars, gvars, pvars, xvars>>

HistIdle ==
    /\ parser = ""
    /\ inputs = <<>>
    /\ history = <<>>

None == "None"
\* an empty dict
EmptyDict == [k \in {} |-> None]

\* if '<key>' not in st.session_state: st.session_state.<key> = <default>
SessionDefaults ==
    [user_authenticated |-> FALSE, conversations |-> EmptyDict, tests |-> EmptyDict,
     flashcards |-> EmptyDict, gemini_api_key |-> None, user_points |-> 0,
     current_course |-> None]
initialize_session_state(s) == s @@ SessionDefaults

\* the script has not been used: a new session, nothing on disk
AppIdle ==
    /\ session_state = initialize_session_state(EmptyDict)
    /\ files = EmptyDict
    /\ menu = "Home"
    /\ shown = "login_page"
    /\ course = None

XIdle == HistIdle /\ AppIdle

(* --------------------------- query_gemini_api ------------------------- *)

\* what one call of model.generate_content(prompt) can do
TextOutcome(t) == [kind |-> "text", text |-> t, exc |-> NoExc]
EmptyOutcome == [kind |-> "empty", text |-> <<>>, exc |-> NoExc]
RaiseOutcome(m) == [kind |-> "raise", text |-> <<>>, exc |-> Exc("Exception", m, "")]

QuotaMsg == "429 Resource has been exhausted (e.g. check quota)."
OtherMsg == "400 API key not valid."
OkText == <<"o", "k">>

\* raise ValueError(f"Error querying Gemini API after {max_retries} attempts: {str(e)}")
RetriesError(e) == Exc("ValueError", "Error querying Gemini API after max_retries attempts", e.msg)
\* raise ValueError("No valid response from the Gemini API")
NoValidResponse == Exc("ValueError", "No valid response from the Gemini API", "")
\* evaluating the name time, which no import binds
TimeNameError == Exc("NameError", "name 'time' is not defined", "")

\* the query is entered: genai.configure, GenerativeModel, attempt = 0
QueryEnter(n) ==
    /\ max_retries' = n
    /\ attempt' = 0
    /\ calls' = 0
    /\ slept' = <<>>
    /\ q_status' = "running"
    /\ q_text' = <<>>
    /\ q_exc' = NoExc

\* return response.text
QueryReturn_AfterSleep(t) ==
    /\ q_status' = "returned"
    /\ q_text' = t
    /\ slept' = Append(slept, Pow2(attempt))
    /\ UNCHANGED <<attempt, q_exc>>
QueryReturn(t) ==
    /\ q_status' = "returned"
    /\ q_text' = t
    /\ UNCHANGED <<attempt, slept, q_exc>>

QueryRaise(e) ==
    /\ q_status' = "raised"
    /\ q_exc' = e
    /\ UNCHANGED <<attempt, slept, q_text>>

\* the except clause of one attempt: the last attempt wraps the error, any
\* other one evaluates time.sleep(2 ** attempt) and goes round the loop
ExceptClause(e) ==
    IF attempt = max_retries - 1
    THEN QueryRaise(RetriesError(e))
    ELSE IF NameDefined("time")
         THEN /\ slept' = Append(slept, Pow2(attempt))
              /\ attempt' = attempt + 1
              /\ UNCHANGED <<q_status, q_text, q_exc>>
         ELSE QueryRaise(TimeNameError)

\* one iteration of "for attempt in range(max_retries)", the statement after
\* the loop included when this was the last iteration
AttemptStep(o) ==
    /\ q_status = "running"
    /\ attempt < max_retries
    /\ calls' = calls + 1
    /\ UNCHANGED <<max_retries, op>>
    /\ CASE o.kind = "text" -> QueryReturn(o.text)
         [] o.kind = "empty" ->
              IF attempt + 1 < max_retries
              THEN /\ attempt' = attempt + 1
                   /\ UNCHANGED <<slept, q_status, q_text, q_exc>>
              ELSE QueryRaise(NoValidResponse)
         [] o.kind = "raise" -> ExceptClause(o.exc)

(* ------------------ generate_study_plan_in_batches -------------------- *)

GenIdle ==
    /\ requested_days = 0
    /\ total_days = 0
    /\ current_day = 0
    /\ study_plan = <<>>
    /\ prompts = <<>>
    /\ errors = <<>>
    /\ ret = <<>>

QueryIdle ==
    /\ max_retries = default_max_retries
    /\ attempt = 0
    /\ op = <<>>
    /\ calls = 0
    /\ slept = <<>>
    /\ q_status = "idle"
    /\ q_text = <<>>
    /\ q_exc = NoExc

DotSpace == <<".", " ">>

\* days_to_generate = min(batch_size, total_days)
DaysToGenerate_Full(td) == batch_size
DaysToGenerate(td) == Min(batch_size, td)

\* what the prompt asks for: that many topics, numbered from current_day
Prompt(cd, n) == [days_to_generate |-> n, current_day |-> cd]

\* [line.split('. ', 1)[1].strip() for line in response.split('\n')
\*  if line.strip() and '. ' in line]
IsTopicLine(line) == Strip(line) # <<>> /\ Contains(line, DotSpace)
Topics(response) ==
    LET kept == SelectSeq(Split(response, <<NL>>), IsTopicLine)
    IN  [i \in 1..Len(kept) |-> Strip(SplitOnce1(kept[i], DotSpace))]

\* if len(topics) != days_to_generate: raise ValueError(...)
TopicsMismatch_Off(topics, n) == FALSE
TopicsMismatch(topics, n) == Len(topics) # n

\* except Exception as e: st.error(...); return []
ExceptReturn_Partial(plan) == plan
ExceptReturn(plan) == <<>>

\* the responses the model may give to the prompt of one batch
TopicLine(d) == <<ToString(d), ".", " ", "Topic", " ", ToString(d)>>
PlainPreamble == <<"Here", " ", "is", " ", "the", " ", "plan", ":">>
DottedPreamble == <<"Sure", ".", " ", "Here", " ", "is", " ", "the", " ", "plan", ":">>
TopicLines(cd, n) == [i \in 1..n |-> TopicLine(cd + i - 1)]
BatchTexts(cd, n) ==
    { JoinLines(TopicLines(cd, n)),
      JoinLines(<<PlainPreamble, <<" ">>>> \o TopicLines(cd, n) \o << <<>> >>),
      JoinLines(TopicLines(cd, n + 1)),
      JoinLines(<<PlainPreamble>> \o TopicLines(cd, n - 1)),
      JoinLines(<<DottedPreamble>> \o TopicLines(cd, n)),
      JoinLines(<<DottedPreamble>> \o TopicLines(cd, n - 1)) }
BatchOutcomes(cd, n) ==
    {TextOutcome(t) : t \in BatchTexts(cd, n)}
        \cup {EmptyOutcome, RaiseOutcome(QuotaMsg), RaiseOutcome(OtherMsg)}

InitPlan ==
    /\ pc = "loop"
    /\ requested_days \in 1..MaxTotalDays
    /\ total_days = requested_days
    /\ current_day = 1
    /\ study_plan = <<>>
    /\ prompts = <<>>
    /\ errors = <<>>
    /\ ret = <<>>
    /\ QueryIdle

\* while total_days > 0: build the prompt, enter query_gemini_api(prompt, api_key)
GenRequest ==
    /\ pc = "loop"
    /\ total_days > 0
    /\ prompts' = Append(prompts, Prompt(current_day, DaysToGenerate(total_days)))
    /\ QueryEnter(default_max_retries)
    /\ pc' = "query"
    /\ UNCHANGED <<op, requested_days, total_days, current_day, study_plan, errors, ret>>

\* one attempt of the query the batch is waiting for
GenAttempt ==
    /\ pc = "query"
    /\ \E o \in BatchOutcomes(current_day, DaysToGenerate(total_days)) : AttemptStep(o)
    /\ UNCHANGED <<pc, gvars>>

\* the query returned: parse, validate, extend or abort
GenTopics ==
    /\ pc = "query"
    /\ q_status = "returned"
    /\ LET n == DaysToGenerate(total_days)
           topics == Topics(q_text)
       IN  IF TopicsMismatch(topics, n)
           THEN /\ errors' = Append(errors, "Error generating study plan: Expected n topics")
                /\ ret' = ExceptReturn(study_plan)
                /\ pc' = "done"
                /\ UNCHANGED <<total_days, current_day, study_plan>>
           ELSE /\ study_plan' = study_plan \o topics
                /\ current_day' = current_day + n
                /\ total_days' = total_days - n
                /\ pc' = "loop"
                /\ UNCHANGED <<errors, ret>>
    /\ UNCHANGED <<qvars, requested_days, prompts>>

\* the query raised: the except clause reports it and returns []
GenQueryFailed ==
    /\ pc = "query"
    /\ q_status = "raised"
    /\ errors' = Append(errors, "Error generating study plan: " \o q_exc.msg)
    /\ ret' = ExceptReturn(study_plan)
    /\ pc' = "done"
    /\ UNCHANGED <<qvars, requested_days, total_days, current_day, study_plan, prompts>>

\* the loop ends: return study_plan
GenReturn ==
    /\ pc = "loop"
    /\ total_days <= 0
    /\ ret' = study_plan
    /\ pc' = "done"
    /\ UNCHANGED <<qvars, requested_days, total_days, current_day, study_plan,
                   prompts, errors>>

(* ------------------------------ parsers ------------------------------- *)

\* a dict is a record with the set of the keys it holds
EmptyQuestion == [keys |-> {}, question |-> <<>>, options |-> <<>>,
                  correct |-> <<>>, explanation |-> <<>>]
EmptyCard == [keys |-> {}, front |-> <<>>, back |-> <<>>]

ParseIdle ==
    /\ text = <<>>
    /\ lines = <<>>
    /\ idx = 0
    /\ questions = <<>>
    /\ current_question = EmptyQuestion
    /\ flashcards = <<>>
    /\ current_card = EmptyCard
    /\ raised = NoExc
    /\ result = <<>>

KeyError(k) == Exc("KeyError", k, "")

(* ------------------------ parse_test_questions ------------------------ *)

PQ == <<"Q", ":">>
OptionPrefixes == {<<"A", ")">>, <<"B", ")">>, <<"C", ")">>, <<"D", ")">>}
PCorrect == <<"C", "o", "r", "r", "e", "c", "t", ":">>
PExplanation == <<"E", "x", "p", "l", "a", "n", "a", "t", "i", "o", "n", ":">>
Colon == <<":">>
ABCD == <<"A", "B", "C", "D">>

IsQLine(line) == StartsWith(line, PQ)
IsOptionLine(line) == \E p \in OptionPrefixes : StartsWith(line, p)
IsCorrectLine(line) == StartsWith(line, PCorrect)
IsExplanationLine(line) == StartsWith(line, PExplanation)

\* 'options' in current_question and 'correct' in current_question
Flushable(q) == "options" \in q.keys /\ "correct" \in q.keys

\* current_question = {'question': line[2:].strip(), 'options': []}
NewQuestion(line) ==
    [keys |-> {"question", "options"}, question |-> Strip(Drop(line, 2)),
     options |-> <<>>, correct |-> <<>>, explanation |-> <<>>]

\* len(q['options']) == 4 and q['correct'] in 'ABCD' and len(q['correct']) == 1
ValidQuestion_AnyCount(q) == Contains(ABCD, q.correct) /\ Len(q.correct) = 1
ValidQuestion(q) ==
    Len(q.options) = 4 /\ Contains(ABCD, q.correct) /\ Len(q.correct) = 1

\* the call is entered: questions = [], current_question = {}, the lines split
PTQ_Enter_KeepsQuestions ==
    /\ pc = "ptq_call"
    /\ lines' = Split(text, <<NL>>)
    /\ idx' = 1
    /\ current_question' = EmptyQuestion
    /\ pc' = "ptq_loop"
    /\ UNCHANGED <<text, questions, flashcards, current_card, raised, result>>
PTQ_Enter ==
    /\ pc = "ptq_call"
    /\ lines' = Split(text, <<NL>>)
    /\ idx' = 1
    /\ questions' = <<>>
    /\ current_question' = EmptyQuestion
    /\ pc' = "ptq_loop"
    /\ UNCHANGED <<text, flashcards, current_card, raised, result>>

\* one iteration of "for line in response.split('\n')"
PTQ_Line ==
    /\ pc = "ptq_loop"
    /\ idx <= Len(lines)
    /\ LET line == Strip(lines[idx])
           cq == current_question
       IN  CASE IsQLine(line) ->
                  /\ IF cq.keys # {}
                     THEN /\ questions' = IF Flushable(cq)
                                          THEN Append(questions, cq)
                                          ELSE questions
                          /\ current_question' = NewQuestion(line)
                     ELSE UNCHANGED <<questions, current_question>>
                  /\ UNCHANGED raised
                  /\ pc' = pc
             [] ~IsQLine(line) /\ IsOptionLine(line) ->
                  IF "options" \in cq.keys
                  THEN /\ current_question' =
                              [cq EXCEPT !.options = Append(@, Strip(Drop(line, 3)))]
                       /\ UNCHANGED <<questions, raised>>
                       /\ pc' = pc
                  ELSE /\ raised' = KeyError("options")
                       /\ UNCHANGED <<questions, current_question>>
                       /\ pc' = "raised"
             [] ~IsQLine(line) /\ ~IsOptionLine(line) /\ IsCorrectLine(line) ->
                  /\ current_question' =
                         [cq EXCEPT !.keys = @ \cup {"correct"},
                                    !.correct = Strip(Split(line, Colon)[2])]
                  /\ UNCHANGED <<questions, raised>>
                  /\ pc' = pc
             [] ~IsQLine(line) /\ ~IsOptionLine(line) /\ ~IsCorrectLine(line)
                    /\ IsExplanationLine(line) ->
                  /\ current_question' =
                         [cq EXCEPT !.keys = @ \cup {"explanation"},
                                    !.explanation = Strip(SplitOnce1(line, Colon))]
                  /\ UNCHANGED <<questions, raised>>
                  /\ pc' = pc
             [] OTHER ->
                  /\ UNCHANGED <<questions, current_question, raised>>
                  /\ pc' = pc
    /\ idx' = idx + 1
    /\ UNCHANGED <<text, lines, flashcards, current_card, result>>

\* after the loop: the last flush, the filter, return valid_questions
PTQ_Return ==
    /\ pc = "ptq_loop"
    /\ idx > Len(lines)
    /\ questions' = IF current_question.keys # {} /\ Flushable(current_question)
                    THEN Append(questions, current_question)
                    ELSE questions
    /\ result' = SelectSeq(questions', ValidQuestion)
    /\ pc' = "done"
    /\ UNCHANGED <<text, lines, idx, current_question, flashcards, current_card, raised>>

\* the responses handed to parse_test_questions: blocks of lines, joined
QLine(t) == PQ \o <<" ">> \o t
OptLine(l, t) == <<l, ")", " ">> \o t
CorrectLine(c) == PCorrect \o <<" ">> \o c
ExplLine(t) == PExplanation \o <<" ">> \o t
OptionLabels == <<"A", "B", "C", "D", "D">>

\* the lines a candidate is written as; has_correct says whether a
\* 'Correct:' line is written
CandLines(c) ==
    <<QLine(c.question)>>
        \o [i \in 1..Len(c.options) |-> OptLine(OptionLabels[i], c.options[i])]
        \o (IF c.has_correct THEN <<CorrectLine(c.correct)>> ELSE <<>>)
        \o <<ExplLine(c.explanation)>>

Cand(q, n, hc, c) ==
    [question |-> <<"q", q>>, options |-> [i \in 1..n |-> <<"o", q, ToString(i)>>],
     has_correct |-> hc, correct |-> c, explanation |-> <<"e", q>>]

CompleteB == Cand("1", 4, TRUE, <<"B">>)
CompleteD == Cand("2", 4, TRUE, <<"D">>)
ThreeOptions == Cand("3", 3, TRUE, <<"A">>)
FiveOptions == Cand("5", 5, TRUE, <<"C">>)
CorrectE == Cand("6", 4, TRUE, <<"E">>)
NoCorrect == Cand("7", 4, FALSE, <<>>)

\* CompleteD is written with indented lines and trailing spaces
Indented(ls) == [i \in 1..Len(ls) |-> <<" ">> \o ls[i] \o <<" ">>]

QBlocks ==
    { CandLines(CompleteB), Indented(CandLines(CompleteD)), CandLines(ThreeOptions),
      CandLines(FiveOptions), CandLines(CorrectE), CandLines(NoCorrect),
      <<CorrectLine(<<"A">>)>>, <<ExplLine(<<"x">>)>>, <<OptLine("D", <<"z">>)>>,
      <<QLine(<<"q", "0">>)>>, << <<>> >>, << <<"h", "i", ":">> >> }

QTexts == {JoinLines(Flatten(bs)) : bs \in SeqsUpTo(QBlocks, MaxBlocks)}

InitQ ==
    /\ pc = "ptq_call"
    /\ text \in QTexts
    /\ lines = <<>>
    /\ idx = 0
    /\ questions = <<>>
    /\ current_question = EmptyQuestion
    /\ flashcards = <<>>
    /\ current_card = EmptyCard
    /\ raised = NoExc
    /\ result = <<>>
    /\ QueryIdle
    /\ GenIdle
    /\ XIdle

NextQ ==
    \/ PTQ_Enter /\ UNCHANGED <<qvars, gvars, xvars>>
    \/ PTQ_Line /\ UNCHANGED <<qvars, gvars, xvars>>
    \/ PTQ_Return /\ UNCHANGED <<qvars, gvars, xvars>>

SpecQ == InitQ /\ [][NextQ]_vars

(* --------------------------- parse_flashcards ------------------------- *)

PFront == <<"F", "r", "o", "n", "t", ":">>
PBack == <<"B", "a", "c", "k", ":">>

\* if current_card: flashcards.append(current_card)
FlushCard_Never(cards, card) == cards
FlushCard(cards, card) == IF card.keys # {} THEN Append(cards, card) ELSE cards

\* current_card = {'front': line[6:].strip()}
NewCard(line) == [keys |-> {"front"}, front |-> Strip(Drop(line, 6)), back |-> <<>>]

\* the call is entered: flashcards = [], lines = response.strip().split('\n')
PF_Enter ==
    /\ pc = "pf_call"
    /\ lines' = Split(Strip(text), <<NL>>)
    /\ idx' = 1
    /\ flashcards' = <<>>
    /\ current_card' = EmptyCard
    /\ pc' = "pf_loop"
    /\ UNCHANGED <<text, questions, current_question, raised, result>>

\* one iteration of "for line in lines"
PF_Line ==
    /\ pc = "pf_loop"
    /\ idx <= Len(lines)
    /\ LET line == lines[idx]
       IN  CASE StartsWith(line, PFront) ->
                  /\ flashcards' = FlushCard(flashcards, current_card)
                  /\ current_card' = NewCard(line)
             [] ~StartsWith(line, PFront) /\ StartsWith(line, PBack) ->
                  /\ current_card' =
                         [current_card EXCEPT !.keys = @ \cup {"back"},
                                              !.back = Strip(Drop(line, 5))]
                  /\ UNCHANGED flashcards
             [] OTHER -> UNCHANGED <<flashcards, current_card>>
    /\ idx' = idx + 1
    /\ UNCHANGED <<pc, text, lines, questions, current_question, raised, result>>

\* after the loop: the last flush, return flashcards
PF_Return ==
    /\ pc = "pf_loop"
    /\ idx > Len(lines)
    /\ flashcards' = FlushCard(flashcards, current_card)
    /\ result' = flashcards'
    /\ pc' = "done"
    /\ UNCHANGED <<text, lines, idx, questions, current_question, current_card, raised>>

\* the responses handed to parse_flashcards
FrontLine(t) == PFront \o <<" ">> \o t
BackLine(t) == PBack \o <<" ">> \o t
FrontTexts == {<<"X">>, <<"Z">>}
BackTexts == {<<"Y">>, <<"W">>}
CardLines ==
    {FrontLine(t) : t \in FrontTexts} \cup {BackLine(t) : t \in BackTexts}
        \cup { <<>>, <<" ">> \o FrontLine(<<"Q">>) }

CardTexts == {JoinLines(ls) : ls \in SeqsUpTo(CardLines, MaxCardLines)}

InitF ==
    /\ pc = "pf_call"
    /\ text \in CardTexts
    /\ lines = <<>>
    /\ idx = 0
    /\ questions = <<>>
    /\ current_question = EmptyQuestion
    /\ flashcards = <<>>
    /\ current_card = EmptyCard
    /\ raised = NoExc
    /\ result = <<>>
    /\ QueryIdle
    /\ GenIdle
    /\ XIdle

NextF ==
    \/ PF_Enter /\ UNCHANGED <<qvars, gvars, xvars>>
    \/ PF_Line /\ UNCHANGED <<qvars, gvars, xvars>>
    \/ PF_Return /\ UNCHANGED <<qvars, gvars, xvars>>

SpecF == InitF /\ [][NextF]_vars

(* ---------------- the same response parsed more than once ------------- *)

PureQBlocks ==
    { <<CorrectLine(<<"A">>)>>, CandLines(CompleteB), CandLines(ThreeOptions),
      <<OptLine("D", <<"z">>)>> }
PureQTexts == {JoinLines(Flatten(bs)) : bs \in SeqsUpTo(PureQBlocks, MaxBlocks)}
\* the responses parsed in between: one that yields a question, one that raises
OtherQTexts ==
    { JoinLines(<<ExplLine(<<"x">>)>> \o Indented(CandLines(CompleteD))),
      JoinLines(CandLines(CorrectE)) }

PureCardLines == {FrontLine(<<"X">>), BackLine(<<"Y">>), <<>>}
PureCardTexts == {JoinLines(ls) : ls \in SeqsUpTo(PureCardLines, MaxCardLines)}
OtherCardTexts ==
    { JoinLines(<<FrontLine(<<"Z">>), BackLine(<<"W">>)>>), JoinLines(<<BackLine(<<"W">>)>>) }

CallPc(p) == IF p = "ptq" THEN "ptq_call" ELSE "pf_call"

\* what a call ended with
Outcome == [returned |-> pc = "done", value |-> result, exc |-> raised]

InitPure ==
    /\ parser \in {"ptq", "pf"}
    /\ \E t \in (IF parser = "ptq" THEN PureQTexts ELSE PureCardTexts),
          o \in (IF parser = "ptq" THEN OtherQTexts ELSE OtherCardTexts) :
          inputs = <<t, o, t>>
    /\ history = <<>>
    /\ pc = CallPc(parser)
    /\ text = inputs[1]
    /\ lines = <<>>
    /\ idx = 0
    /\ questions = <<>>
    /\ current_question = EmptyQuestion
    /\ flashcards = <<>>
    /\ current_card = EmptyCard
    /\ raised = NoExc
    /\ result = <<>>
    /\ QueryIdle
    /\ GenIdle
    /\ AppIdle

\* the caller takes what the call ended with and parses the next response;
\* the locals of the call that ended are left as they were
PureNextCall ==
    /\ pc \in {"done", "raised"}
    /\ Len(history) < Len(inputs)
    /\ history' = Append(history, Outcome)
    /\ IF Len(history') < Len(inputs)
       THEN /\ text' = inputs[Len(history') + 1]
            /\ pc' = CallPc(parser)
       ELSE /\ text' = text
            /\ pc' = "end"
    /\ raised' = NoExc
    /\ result' = <<>>
    /\ UNCHANGED <<lines, idx, questions, current_question, flashcards, current_card,
                   parser, inputs, qvars, gvars, avars>>

NextPure ==
    \/ PTQ_Enter /\ UNCHANGED <<qvars, gvars, xvars>>
    \/ PTQ_Line /\ UNCHANGED <<qvars, gvars, xvars>>
    \/ PTQ_Return /\ UNCHANGED <<qvars, gvars, xvars>>
    \/ PF_Enter /\ UNCHANGED <<qvars, gvars, xvars>>
    \/ PF_Line /\ UNCHANGED <<qvars, gvars, xvars>>
    \/ PF_Return /\ UNCHANGED <<qvars, gvars, xvars>>
    \/ PureNextCall

SpecPure == InitPure /\ [][NextPure]_vars

(* ------------------------- the Streamlit script ----------------------- *)

\* hasattr(st.session_state, k) / k in st.session_state
Has(k) == k \in DOMAIN session_state
\* st.session_state.<k> = v
SetKey(s, k, v) == (k :> v) @@ s

\* authenticate(username, password)
authenticate(username, password) == username = "user" /\ password = "pass"
Credentials == {<<"user", "pass">>, <<"user", "guess">>}

\* number_input(min_value=180, max_value=730): the durations explored are
\* the smallest the widget allows
min_value == 180
max_value == 730
Durations == {t \in min_value..(min_value + MaxExtraDays) : t <= max_value}
\* some of all_courses
Courses == {"MBA", "Finance"}

\* with open(f"{course}_session.json", "w") as f: json.dump(data, f)
save_session_data_Skipped(fs, c, data) == fs
save_session_data(fs, c, data) == (c :> data) @@ fs

\* the record create_new_course stores (the level is the selectbox default)
SessionData(plan, time_frame) ==
    [study_plan |-> plan, start_date |-> "today", current_day |-> 1,
     max_day |-> time_frame, level |-> "Beginner"]

\* if study_plan:
PlanTruthy_Always(plan) == TRUE
PlanTruthy(plan) == plan # <<>>

\* login_page: the Login button
Login ==
    /\ pc = "page"
    /\ ~session_state.user_authenticated
    /\ \E cr \in Credentials :
          IF authenticate(cr[1], cr[2])
          THEN /\ session_state' = [session_state EXCEPT !.user_authenticated = TRUE]
               /\ shown' = "display_home"
          ELSE /\ shown' = "Invalid credentials"
               /\ UNCHANGED session_state
    /\ UNCHANGED <<pc, files, menu, course, qvars, gvars, pvars, hvars>>

\* the Logout button at the end of the script: every key is deleted, and the
\* rerun starts with initialize_session_state()
Logout_KeepsKeys ==
    /\ pc = "page"
    /\ session_state' = [session_state EXCEPT !.user_authenticated = FALSE]
    /\ menu' = "Home"
    /\ shown' = "login_page"
    /\ UNCHANGED <<pc, files, course, qvars, gvars, pvars, hvars>>
Logout ==
    /\ pc = "page"
    /\ session_state' = initialize_session_state(EmptyDict)
    /\ menu' = "Home"
    /\ shown' = "login_page"
    /\ UNCHANGED <<pc, files, course, qvars, gvars, pvars, hvars>>

\* the sidebar radio is set to Courses
OpenCourses ==
    /\ pc = "page"
    /\ session_state.user_authenticated
    /\ menu # "Courses"
    /\ menu' = "Courses"
    /\ shown' = IF Has("new_course") /\ session_state.new_course THEN "create_new_course"
                ELSE IF session_state.current_course # None THEN "display_course_content"
                ELSE "sidebar"
    /\ UNCHANGED <<pc, session_state, files, course, qvars, gvars, pvars, hvars>>

\* sidebar: "+ New Course"
NewCourseClick ==
    /\ pc = "page"
    /\ session_state.user_authenticated
    /\ menu = "Courses"
    /\ session_state' = SetKey(session_state, "new_course", TRUE)
    /\ shown' = "create_new_course"
    /\ UNCHANGED <<pc, files, menu, course, qvars, gvars, pvars, hvars>>

\* create_new_course: the API key is typed into the text input
EnterApiKey ==
    /\ pc = "page"
    /\ shown = "create_new_course"
    /\ session_state.gemini_api_key = None
    /\ session_state' = [session_state EXCEPT !.gemini_api_key = "key"]
    /\ UNCHANGED <<pc, files, menu, shown, course, qvars, gvars, pvars, hvars>>

\* create_new_course: "Generate Course" is pressed for a course not yet in
\* the session and a duration the number input allows; the generator is entered
GenerateCourseClick ==
    /\ pc = "page"
    /\ shown = "create_new_course"
    /\ session_state.gemini_api_key # None
    /\ \E c \in Courses \ DOMAIN session_state.conversations, time_frame \in Durations :
          /\ course' = c
          /\ requested_days' = time_frame
          /\ total_days' = time_frame
    /\ current_day' = 1
    /\ study_plan' = <<>>
    /\ prompts' = <<>>
    /\ errors' = <<>>
    /\ ret' = <<>>
    /\ pc' = "loop"
    /\ UNCHANGED <<session_state, files, menu, shown, qvars, pvars, hvars>>

\* the responses explored for a batch of a course being created
CreateOutcomes(cd, n) ==
    { TextOutcome(JoinLines(TopicLines(cd, n))),
      TextOutcome(JoinLines(<<PlainPreamble>> \o TopicLines(cd, n - 1))),
      EmptyOutcome, RaiseOutcome(QuotaMsg) }

CreateAttempt ==
    /\ pc = "query"
    /\ \E o \in CreateOutcomes(current_day, DaysToGenerate(total_days)) : AttemptStep(o)
    /\ UNCHANGED <<pc, gvars>>

\* create_new_course after generate_study_plan_in_batches returned: a truthy
\* plan is stored, saved and made the current course
CreateStore ==
    /\ pc = "done"
    /\ IF PlanTruthy(ret)
       THEN /\ session_state' =
                 [session_state EXCEPT
                     !.conversations = (course :> SessionData(ret, requested_days)) @@ @,
                     !.new_course = FALSE,
                     !.current_course = course]
            /\ files' = save_session_data(files, course, SessionData(ret, requested_days))
            /\ shown' = "display_course_content"
       ELSE /\ shown' = "create_new_course"
            /\ UNCHANGED <<session_state, files>>
    /\ pc' = "page"
    /\ course' = None
    /\ requested_days' = 0
    /\ total_days' = 0
    /\ current_day' = 0
    /\ study_plan' = <<>>
    /\ prompts' = <<>>
    /\ errors' = <<>>
    /\ ret' = <<>>
    /\ max_retries' = default_max_retries
    /\ attempt' = 0
    /\ calls' = 0
    /\ slept' = <<>>
    /\ q_status' = "idle"
    /\ q_text' = <<>>
    /\ q_exc' = NoExc
    /\ UNCHANGED <<op, menu, pvars, hvars>>

InitApp ==
    /\ pc = "page"
    /\ AppIdle
    /\ HistIdle
    /\ QueryIdle
    /\ GenIdle
    /\ ParseIdle

NextCreate ==
    \/ Login
    \/ Logout
    \/ OpenCourses
    \/ NewCourseClick
    \/ EnterApiKey
    \/ GenerateCourseClick
    \/ GenRequest /\ UNCHANGED <<pvars, xvars>>
    \/ CreateAttempt /\ UNCHANGED <<pvars, xvars>>
    \/ GenTopics /\ UNCHANGED <<pvars, xvars>>
    \/ GenQueryFailed /\ UNCHANGED <<pvars, xvars>>
    \/ GenReturn /\ UNCHANGED <<pvars, xvars>>
    \/ CreateStore

SpecCreate == InitApp /\ [][NextCreate]_vars

(* --------------------------- day navigation --------------------------- *)

Max(a, b) == IF a >= b THEN a ELSE b

\* the plan the generator's loop builds from the good response to each batch
RECURSIVE PlanFrom(_, _)
PlanFrom(cd, td) ==
    IF td <= 0 THEN <<>>
    ELSE LET n == DaysToGenerate(td)
         IN  Topics(JoinLines(TopicLines(cd, n))) \o PlanFrom(cd + n, td - n)
GoodPlan(time_frame) == PlanFrom(1, time_frame)

\* a course has just been created and is shown
InitNav ==
    /\ pc = "page"
    /\ \E c \in Courses, time_frame \in Durations :
          /\ session_state =
                 [initialize_session_state(EmptyDict) EXCEPT
                     !.user_authenticated = TRUE,
                     !.gemini_api_key = "key",
                     !.conversations = c :> SessionData(GoodPlan(time_frame), time_frame),
                     !.current_course = c] @@ [new_course |-> FALSE]
          /\ files = c :> SessionData(GoodPlan(time_frame), time_frame)
    /\ menu = "Courses"
    /\ shown = "display_course_content"
    /\ course = None
    /\ HistIdle
    /\ QueryIdle
    /\ GenIdle
    /\ ParseIdle

\* display_course_content(course) gets as far as the two buttons
DayButtonsShown(c) ==
    /\ pc = "page"
    /\ session_state.user_authenticated
    /\ menu = "Courses"
    /\ ~(Has("new_course") /\ session_state.new_course)
    /\ c # None
    /\ c \in DOMAIN session_state.conversations
    /\ LET session_data == session_state.conversations[c]
       IN  /\ session_data.study_plan # <<>>
           /\ 0 <= session_data.current_day - 1
           /\ session_data.current_day - 1 < Len(session_data.study_plan)

\* session_data['current_day'] = v; save_session_data(course, session_data)
SetDayAndSave(c, v) ==
    LET session_data == [session_state.conversations[c] EXCEPT !.current_day = v]
    IN  /\ session_state' = [session_state EXCEPT !.conversations[c] = session_data]
        /\ files' = save_session_data(files, c, session_data)

\* "Previous Day", disabled=current_day <= 1
PreviousDay ==
    LET c == session_state.current_course
    IN  /\ DayButtonsShown(c)
        /\ ~(session_state.conversations[c].current_day <= 1)
        /\ SetDayAndSave(c, Max(1, session_state.conversations[c].current_day - 1))
        /\ UNCHANGED <<pc, menu, shown, course, qvars, gvars, pvars, hvars>>

\* "Next Day", disabled=current_day >= max_day
NextDay ==
    LET c == session_state.current_course
        session_data == session_state.conversations[c]
    IN  /\ DayButtonsShown(c)
        /\ ~(session_data.current_day >= session_data.max_day)
        /\ SetDayAndSave(c, Min(session_data.max_day, session_data.current_day + 1))
        /\ UNCHANGED <<pc, menu, shown, course, qvars, gvars, pvars, hvars>>

NextNav ==
    \/ PreviousDay
    \/ NextDay

SpecNav == InitNav /\ [][NextNav]_vars

(* ------------------------------- tests -------------------------------- *)

\* no query is running
QueryReset ==
    /\ max_retries' = default_max_retries
    /\ attempt' = 0
    /\ calls' = 0
    /\ slept' = <<>>
    /\ q_status' = "idle"
    /\ q_text' = <<>>
    /\ q_exc' = NoExc

\* st.session_state.tests.get(course, [])
TestsOf(s, c) == IF c \in DOMAIN s.tests THEN s.tests[c] ELSE <<>>

\* study_plan[max(0, current_day-3):current_day]
RecentTopics(plan, cd) ==
    LET from == Max(0, cd - 3)
        to == Min(Max(cd, 0), Len(plan))
    IN  IF from >= to THEN <<>> ELSE SubSeq(plan, from + 1, to)

\* display_test(): the session it leaves
display_test_state(s) ==
    IF "current_question" \notin DOMAIN s THEN SetKey(s, "current_question", 0) ELSE s
\* next(test for test in tests[course] if test['number'] == test_number)
CurrentTest(s) ==
    LET tests == s.tests[s.current_test[1]]
    IN  tests[CHOOSE i \in 1..Len(tests) : tests[i].number = s.current_test[2]]
\* display_test(): what it puts on the page when no button was pressed
display_test_page(s) ==
    IF display_test_state(s).current_question < Len(CurrentTest(s).questions)
    THEN "question"
    ELSE "Test completed. You can retake the test or go back to the course content."

\* create_new_test(course) up to the call of generate_test_questions
create_new_test(s, c) ==
    /\ session_state' = s
    /\ IF c \notin DOMAIN s.conversations
       THEN /\ shown' = "No data found for course"
            /\ pc' = "page"
            /\ course' = None
            /\ QueryReset
       ELSE LET session_data == s.conversations[c]
            IN  IF session_data.study_plan = <<>>
                THEN /\ shown' = "No study plan found"
                     /\ pc' = "page"
                     /\ course' = None
                     /\ QueryReset
                ELSE IF Len(RecentTopics(session_data.study_plan, session_data.current_day)) < 3
                THEN /\ shown' = "Not enough topics covered yet to create a test."
                     /\ pc' = "page"
                     /\ course' = None
                     /\ QueryReset
                ELSE /\ shown' = "Generating test questions..."
                     /\ pc' = "t_query"
                     /\ course' = c
                     /\ QueryEnter(default_max_retries)

\* main_app with the radio on Tests, from session s:
\* if hasattr(st.session_state, 'new_test'): create_new_test(...)
\* elif hasattr(st.session_state, 'current_test'): display_test()
TestsRun(s) ==
    IF "new_test" \in DOMAIN s
    THEN create_new_test(s, s.new_test)
    ELSE /\ pc' = "page"
         /\ course' = None
         /\ QueryReset
         /\ IF "current_test" \in DOMAIN s
            THEN /\ session_state' = display_test_state(s)
                 /\ shown' = display_test_page(s)
            ELSE /\ session_state' = s
                 /\ shown' = "Tests"

\* the sidebar radio is set to Tests
OpenTestsMenu ==
    /\ pc = "page"
    /\ session_state.user_authenticated
    /\ menu # "Tests"
    /\ menu' = "Tests"
    /\ TestsRun(session_state)
    /\ UNCHANGED <<op, files, gvars, pvars, hvars>>

\* sidebar: "+ New Test" of a course
NewTestClick ==
    /\ pc = "page"
    /\ session_state.user_authenticated
    /\ menu = "Tests"
    /\ \E c \in DOMAIN session_state.conversations :
          /\ Len(TestsOf(session_state, c)) < MaxTests
          /\ TestsRun(SetKey(session_state, "new_test", c))
    /\ UNCHANGED <<op, files, menu, gvars, pvars, hvars>>

\* sidebar: "Test <n>" of a course
SelectTestClick ==
    /\ pc = "page"
    /\ session_state.user_authenticated
    /\ menu = "Tests"
    /\ \E c \in DOMAIN session_state.conversations :
          \E i \in 1..Len(TestsOf(session_state, c)) :
             TestsRun(SetKey(session_state, "current_test",
                             <<c, TestsOf(session_state, c)[i].number>>))
    /\ UNCHANGED <<op, files, menu, gvars, pvars, hvars>>

\* the responses explored for generate_test_questions: two questions after a
\* leading 'Explanation:' line, a response that starts with 'Q:', a response
\* without a valid question
TwoQuestionsText ==
    JoinLines(<<ExplLine(<<"x">>)>> \o CandLines(CompleteB) \o CandLines(CompleteD))
TestOutcomes ==
    { TextOutcome(TwoQuestionsText),
      TextOutcome(JoinLines(CandLines(CompleteB))),
      TextOutcome(JoinLines(<<ExplLine(<<"x">>)>> \o CandLines(ThreeOptions))),
      EmptyOutcome, RaiseOutcome(QuotaMsg) }

\* generate_test_questions: one attempt of its query
TestAttempt ==
    /\ pc = "t_query"
    /\ \E o \in TestOutcomes : AttemptStep(o)
    /\ UNCHANGED <<pc, gvars, pvars, xvars>>

\* generate_test_questions: return parse_test_questions(response)
TestParse ==
    /\ pc = "t_query"
    /\ q_status = "returned"
    /\ text' = q_text
    /\ pc' = "ptq_call"
    /\ UNCHANGED <<lines, idx, questions, current_question, flashcards, current_card,
                   raised, result, qvars, gvars, xvars>>

\* the locals of the parser are gone
ParseReset ==
    /\ text' = <<>>
    /\ lines' = <<>>
    /\ idx' = 0
    /\ questions' = <<>>
    /\ current_question' = EmptyQuestion
    /\ flashcards' = <<>>
    /\ current_card' = EmptyCard
    /\ raised' = NoExc
    /\ result' = <<>>

\* except Exception as e: st.error("An error occurred while creating the test: ...")
TestFailed ==
    /\ \/ pc = "t_query" /\ q_status = "raised"
       \/ pc = "raised"
    /\ shown' = "An error occurred while creating the test"
    /\ pc' = "page"
    /\ course' = None
    /\ QueryReset
    /\ ParseReset
    /\ UNCHANGED <<op, session_state, files, menu, gvars, hvars>>

\* st.session_state.tests[course].append(new_test); new_test = None;
\* current_test = (course, test_number)
AppendTest(s, c, qs) ==
    LET test_number == Len(TestsOf(s, c)) + 1
        new_test == [number |-> test_number, questions |-> qs,
                     user_answers |-> EmptyDict, score |-> 0]
        s1 == [s EXCEPT !.tests = (c :> Append(TestsOf(s, c), new_test)) @@ @]
    IN  SetKey(SetKey(s1, "new_test", None), "current_test", <<c, test_number>>)

\* create_new_test after generate_test_questions returned: no questions are
\* reported; otherwise the test is appended and the script is rerun
CreateTestFinish ==
    /\ pc = "done"
    /\ IF result = <<>>
       THEN /\ shown' = "Failed to generate valid questions. Please try again."
            /\ pc' = "page"
            /\ course' = None
            /\ QueryReset
            /\ UNCHANGED session_state
       ELSE TestsRun(AppendTest(session_state, course, result))
    /\ ParseReset
    /\ UNCHANGED <<op, files, menu, gvars, hvars>>

\* a course was created and moved to one of its first days, all saved
InitTests ==
    /\ pc = "page"
    /\ \E c \in Courses, time_frame \in Durations, day \in 1..MaxStartDay :
          LET session_data ==
                 [SessionData(GoodPlan(time_frame), time_frame) EXCEPT !.current_day = day]
          IN  /\ session_state =
                     [initialize_session_state(EmptyDict) EXCEPT
                         !.user_authenticated = TRUE,
                         !.gemini_api_key = "key",
                         !.conversations = c :> session_data,
                         !.current_course = c] @@ [new_course |-> FALSE]
              /\ files = c :> session_data
    /\ menu = "Courses"
    /\ shown = "display_course_content"
    /\ course = None
    /\ HistIdle
    /\ QueryIdle
    /\ GenIdle
    /\ ParseIdle

NextTests ==
    \/ OpenTestsMenu
    \/ OpenCourses
    \/ NewTestClick
    \/ SelectTestClick
    \/ TestAttempt
    \/ TestParse
    \/ PTQ_Enter /\ UNCHANGED <<qvars, gvars, xvars>>
    \/ PTQ_Line /\ UNCHANGED <<qvars, gvars, xvars>>
    \/ PTQ_Return /\ UNCHANGED <<qvars, gvars, xvars>>
    \/ TestFailed
    \/ CreateTestFinish

SpecTests == InitTests /\ [][NextTests]_vars

(* ----------------- the Tests screen with login and logout -------------- *)

NextSession ==
    \/ Login
    \/ Logout
    \/ OpenTestsMenu
    \/ OpenCourses
    \/ NewTestClick
    \/ SelectTestClick
    \/ TestAttempt
    \/ TestParse
    \/ PTQ_Enter /\ UNCHANGED <<qvars, gvars, xvars>>
    \/ PTQ_Line /\ UNCHANGED <<qvars, gvars, xvars>>
    \/ PTQ_Return /\ UNCHANGED <<qvars, gvars, xvars>>
    \/ TestFailed
    \/ CreateTestFinish

SpecSession == InitTests /\ [][NextSession]_vars

(* --------------------------- display_test ----------------------------- *)

\* what parse_test_questions returns for a candidate written in full
ParsedQuestion(c) ==
    [keys |-> {"question", "options", "correct", "explanation"}, question |-> c.question,
     options |-> c.options, correct |-> c.correct, explanation |-> c.explanation]
QuestionLists ==
    { <<ParsedQuestion(CompleteB)>>, <<ParsedQuestion(CompleteB), ParsedQuestion(CompleteD)>> }

\* ord(question['correct']) - ord('A')
LetterIndex(correct) ==
    CASE correct = <<"A">> -> 0 [] correct = <<"B">> -> 1
      [] correct = <<"C">> -> 2 [] correct = <<"D">> -> 3

\* the position of the current test in its course's list
CurrentTestIndex(s) ==
    LET tests == s.tests[s.current_test[1]]
    IN  CHOOSE i \in 1..Len(tests) : tests[i].number = s.current_test[2]

\* display_test() with no button pressed, from session s
DisplayTestRun(s) ==
    /\ session_state' = display_test_state(s)
    /\ shown' = display_test_page(s)

\* create_new_test from the point where generate_test_questions has returned
\* questions, followed by display_test() for the test made current
TestCreated ==
    /\ pc = "page"
    /\ session_state.user_authenticated
    /\ menu = "Tests"
    /\ \E c \in DOMAIN session_state.conversations, qs \in QuestionLists :
          /\ Len(RecentTopics(session_state.conversations[c].study_plan,
                              session_state.conversations[c].current_day)) >= 3
          /\ Len(TestsOf(session_state, c)) < MaxTests
          /\ DisplayTestRun(AppendTest(session_state, c, qs))
    /\ UNCHANGED <<pc, files, menu, course, qvars, gvars, pvars, hvars>>

\* sidebar "Test <n>", followed by display_test() for the test made current
TestSelected ==
    /\ pc = "page"
    /\ session_state.user_authenticated
    /\ menu = "Tests"
    /\ \E c \in DOMAIN session_state.conversations :
          \E i \in 1..Len(TestsOf(session_state, c)) :
             DisplayTestRun(SetKey(session_state, "current_test",
                                   <<c, TestsOf(session_state, c)[i].number>>))
    /\ UNCHANGED <<pc, files, menu, course, qvars, gvars, pvars, hvars>>

\* "Submit Answer": the answer is recorded and scored, current_question
\* moves on; then either the rerun shows the next question or the run ends
\* with the score
SubmitAnswer ==
    /\ pc = "page"
    /\ menu = "Tests"
    /\ shown = "question"
    /\ LET c == session_state.current_test[1]
           i == CurrentTestIndex(session_state)
           test_data == session_state.tests[c][i]
           cq == session_state.current_question
           question == test_data.questions[cq + 1]
           correct_answer == question.options[LetterIndex(question.correct) + 1]
       IN  \E n \in 1..Len(question.options) :
              LET user_answer == question.options[n]
                  s1 == [session_state EXCEPT
                            !.tests[c][i].user_answers = (cq :> user_answer) @@ @,
                            !.tests[c][i].score =
                                IF user_answer = correct_answer THEN @ + 1 ELSE @,
                            !.current_question = @ + 1]
              IN  IF s1.current_question < Len(test_data.questions)
                  THEN DisplayTestRun(s1)
                  ELSE /\ session_state' = s1
                       /\ shown' = "Test completed!"
    /\ UNCHANGED <<pc, files, menu, course, qvars, gvars, pvars, hvars>>

\* "Retake Test" is pressed on the page the last Submit Answer left: in the
\* rerun "Submit Answer" is not pressed, so the branch holding the Retake
\* handler is not run
RetakeTestClick ==
    /\ pc = "page"
    /\ menu = "Tests"
    /\ shown = "Test completed!"
    /\ DisplayTestRun(session_state)
    /\ UNCHANGED <<pc, files, menu, course, qvars, gvars, pvars, hvars>>

NextTest ==
    \/ OpenTestsMenu
    \/ TestCreated
    \/ TestSelected
    \/ SubmitAnswer
    \/ RetakeTestClick

SpecTest == InitTests /\ [][NextTest]_vars

(* ----------------------------- flashcards ----------------------------- *)

\* the lists parse_flashcards may hand to generate_review_flashcards
ReviewCard(x) == [keys |-> {"front", "back"}, front |-> <<x>>, back |-> <<"b">>]
ReviewCards == {ReviewCard("X"), ReviewCard("Y")}
CardLists == SeqsUpTo(ReviewCards, MaxDeck)

\* flashcards[i] with a Python index counted from 0: is there such an element
IndexInRange(list, i) == -Len(list) <= i /\ i < Len(list)

\* display_flashcards(): the session it leaves
display_flashcards_state(s) ==
    IF "current_card" \notin DOMAIN s THEN SetKey(s, "current_card", 0) ELSE s
\* display_flashcards(): what it puts on the page
display_flashcards_page(s) ==
    LET s1 == display_flashcards_state(s)
        deck == s1.flashcards[s1.current_flashcards]
    IN  IF deck = <<>> THEN "No flashcards available for this course."
        ELSE IF IndexInRange(deck, s1.current_card) THEN "card"
        ELSE "IndexError"

\* a run of the script with the radio on Flashcards, from session s
FlashcardsRun(s) ==
    IF "current_flashcards" \in DOMAIN s
    THEN /\ session_state' = display_flashcards_state(s)
         /\ shown' = display_flashcards_page(s)
    ELSE /\ session_state' = s
         /\ shown' = "Flashcards"

\* the sidebar radio is set to Flashcards
OpenFlashcardsMenu ==
    /\ pc = "page"
    /\ session_state.user_authenticated
    /\ menu # "Flashcards"
    /\ menu' = "Flashcards"
    /\ FlashcardsRun(session_state)
    /\ UNCHANGED <<pc, files, course, qvars, gvars, pvars, hvars>>

\* generate_review_flashcards(course, topics): generate_flashcards returns a
\* list, which extends the course's deck, or raises, which is reported
GenerateReviewFlashcards ==
    /\ pc = "page"
    /\ session_state.user_authenticated
    /\ menu = "Tests"
    /\ \/ \E c \in Courses, new \in CardLists :
             LET old == IF c \in DOMAIN session_state.flashcards
                        THEN session_state.flashcards[c] ELSE <<>>
             IN  /\ Len(old) + Len(new) <= MaxDeck
                 /\ session_state' =
                       SetKey([session_state EXCEPT !.flashcards = (c :> (old \o new)) @@ @],
                              "current_flashcards", c)
                 /\ shown' = "Tests"
       \/ /\ shown' = "An error occurred"
          /\ UNCHANGED session_state
    /\ UNCHANGED <<pc, files, menu, course, qvars, gvars, pvars, hvars>>

\* sidebar: "<course> Flashcards"
SelectDeck ==
    /\ pc = "page"
    /\ session_state.user_authenticated
    /\ menu = "Flashcards"
    /\ \E c \in DOMAIN session_state.flashcards :
          FlashcardsRun(SetKey(session_state, "current_flashcards", c))
    /\ UNCHANGED <<pc, files, menu, course, qvars, gvars, pvars, hvars>>

\* "Previous Card", disabled=current_card <= 0
PreviousCard ==
    /\ pc = "page"
    /\ menu = "Flashcards"
    /\ shown = "card"
    /\ ~(session_state.current_card <= 0)
    /\ FlashcardsRun([session_state EXCEPT !.current_card = @ - 1])
    /\ UNCHANGED <<pc, files, menu, course, qvars, gvars, pvars, hvars>>

\* "Next Card", disabled=current_card >= len(flashcards) - 1
NextCard ==
    /\ pc = "page"
    /\ menu = "Flashcards"
    /\ shown = "card"
    /\ ~(session_state.current_card >=
            Len(session_state.flashcards[session_state.current_flashcards]) - 1)
    /\ FlashcardsRun([session_state EXCEPT !.current_card = @ + 1])
    /\ UNCHANGED <<pc, files, menu, course, qvars, gvars, pvars, hvars>>

\* random.shuffle(list): any order of the same elements
Shuffles(list) ==
    LET n == Len(list)
        perms == {p \in [1..n -> 1..n] : \A i, j \in 1..n : p[i] = p[j] => i = j}
    IN  {[i \in 1..n |-> list[p[i]]] : p \in perms}

\* "Shuffle"
Shuffle ==
    /\ pc = "page"
    /\ menu = "Flashcards"
    /\ shown = "card"
    /\ \E shuffled \in Shuffles(session_state.flashcards[session_state.current_flashcards]) :
          FlashcardsRun([session_state EXCEPT
                            !.flashcards[session_state.current_flashcards] = shuffled,
                            !.current_card = 0])
    /\ UNCHANGED <<pc, files, menu, course, qvars, gvars, pvars, hvars>>

NextCards ==
    \/ Login
    \/ OpenTestsMenu
    \/ OpenFlashcardsMenu
    \/ GenerateReviewFlashcards
    \/ SelectDeck
    \/ PreviousCard
    \/ NextCard
    \/ Shuffle

SpecCards == InitApp /\ [][NextCards]_vars

(* ------------------- the retrying call on its own --------------------- *)

\* the operation as a script: op[i] is what its i-th call does
ScriptOutcomes == {TextOutcome(OkText), EmptyOutcome,
                   RaiseOutcome(QuotaMsg), RaiseOutcome(OtherMsg)}

InitRetry ==
    /\ pc = "query"
    /\ max_retries \in 1..MaxRetries
    /\ op \in [1..max_retries -> ScriptOutcomes]
    /\ attempt = 0
    /\ calls = 0
    /\ slept = <<>>
    /\ q_status = "running"
    /\ q_text = <<>>
    /\ q_exc = NoExc
    /\ GenIdle
    /\ ParseIdle
    /\ XIdle

RetryAttempt ==
    /\ pc = "query"
    /\ AttemptStep(op[attempt + 1])
    /\ pc' = IF q_status' = "running" THEN "query" ELSE "done"
    /\ UNCHANGED <<gvars, pvars, xvars>>

NextRetry == RetryAttempt

SpecRetry == InitRetry /\ [][NextRetry]_vars

(* ---------------------- the plan generator's runs --------------------- *)

InitGen == InitPlan /\ ParseIdle /\ XIdle

NextPlan ==
    \/ GenRequest /\ UNCHANGED <<pvars, xvars>>
    \/ GenAttempt /\ UNCHANGED <<pvars, xvars>>
    \/ GenTopics /\ UNCHANGED <<pvars, xvars>>
    \/ GenQueryFailed /\ UNCHANGED <<pvars, xvars>>
    \/ GenReturn /\ UNCHANGED <<pvars, xvars>>

SpecPlan == InitGen /\ [][NextPlan]_vars

(* ------------------------------ claims -------------------------------- *)

RECURSIVE SumSeq(_)
SumSeq(q) == IF q = <<>> THEN 0 ELSE Head(q) + SumSeq(Tail(q))

BatchSizes == [k \in 1..Len(prompts) |-> prompts[k].days_to_generate]
BatchStarts == [k \in 1..Len(prompts) |-> prompts[k].current_day]

\* the generator ended by reporting an error and returning the empty list
GenFailed == pc = "done" /\ errors # <<>> /\ ret = <<>>
\* the generator ended by returning the plan it built, no error reported
GenSucceeded == pc = "done" /\ errors = <<>>

\* C1: for every total_days > 0 and every sequence of responses and failures,
\* generate_study_plan_in_batches ends either with a plan of exactly
\* total_days topics or with a failure (an error reported, [] returned);
\* no plan of another length is ever returned.
C1_PlanLengthOrFail ==
    pc = "done" =>
        \/ GenSucceeded /\ Len(ret) = requested_days
        \/ GenFailed

\* a plan of several batches was returned
C1_Witness ==
    /\ GenSucceeded
    /\ requested_days > 2 * batch_size
    /\ Len(ret) = requested_days

\* the last response of the query, once returned, does not hold as many
\* topics as the last prompt asked for
BatchMismatched ==
    /\ pc \in {"loop", "done"}
    /\ prompts # <<>>
    /\ q_status = "returned"
    /\ Len(Topics(q_text)) # prompts[Len(prompts)].days_to_generate

\* C2: when a batch response holds another number of topics than the batch
\* asked for, the generation is over: the empty list is returned although
\* earlier batches were validated, an error is reported, and each batch up
\* to the mismatching one was requested exactly once - the mismatching batch
\* is not requested again and no later batch is requested.
C2_MismatchAborts ==
    BatchMismatched =>
        /\ pc = "done"
        /\ ret = <<>>
        /\ errors # <<>>
        /\ Len(study_plan) = requested_days - total_days
        /\ Len(prompts) = (Len(study_plan) \div batch_size) + 1
        /\ prompts[Len(prompts)].current_day = Len(study_plan) + 1

\* a mismatch in a later batch, with validated topics already collected
C2_Witness ==
    /\ BatchMismatched
    /\ study_plan # <<>>
    /\ ret = <<>>

\* C3: when every batch validates, the batches were issued with sizes of at
\* most 30 that sum to total_days, all but the last equal to 30, batch k
\* starting at day 1 + the sum of the sizes before it; total_days = 65 gives
\* sizes [30, 30, 5] and starting days [1, 31, 61].
C3_BatchPartition ==
    GenSucceeded =>
        /\ \A k \in 1..Len(prompts) :
              /\ BatchSizes[k] >= 1
              /\ BatchSizes[k] <= batch_size
              /\ k < Len(prompts) => BatchSizes[k] = batch_size
              /\ BatchStarts[k] = 1 + SumSeq(SubSeq(BatchSizes, 1, k - 1))
        /\ SumSeq(BatchSizes) = requested_days
        /\ requested_days = 65 =>
              /\ BatchSizes = <<30, 30, 5>>
              /\ BatchStarts = <<1, 31, 61>>

\* a 65-day plan was generated in three batches
C3_Witness ==
    /\ GenSucceeded
    /\ requested_days = 65
    /\ Len(prompts) = 3
    /\ Len(ret) = 65

\* the failure's message identifies quota exhaustion
IsQuota(e) == e.msg = QuotaMsg

\* the scripted operation fails k times with the quota error, then succeeds
FailsThenSucceeds(k) ==
    /\ k + 1 <= Len(op)
    /\ \A i \in 1..k : op[i] = RaiseOutcome(QuotaMsg)
    /\ op[k + 1].kind = "text"

\* C9: an operation that fails k < max_retries times with a retryable error
\* and then succeeds makes query_gemini_api return the success result after
\* exactly k + 1 attempts (two failures, then a success, max_retries = 5:
\* 3 attempts).
C9_RetriesThenSucceeds ==
    pc = "done" =>
        \A k \in 0..(max_retries - 1) :
            FailsThenSucceeds(k) =>
                /\ q_status = "returned"
                /\ q_text = op[k + 1].text
                /\ calls = k + 1

\* C10: a failure whose message does not identify quota exhaustion is not
\* retried: the call fails on attempt 1 with that very failure.
C10_NonRetryablePropagates ==
    (pc = "done" /\ op[1].kind = "raise" /\ ~IsQuota(op[1].exc)) =>
        /\ q_status = "raised"
        /\ q_exc = op[1].exc
        /\ calls = 1

\* the question a completely written candidate stands for
QuestionOf(c) ==
    [keys |-> {"question", "options", "correct", "explanation"},
     question |-> c.question, options |-> c.options,
     correct |-> c.correct, explanation |-> c.explanation]

CompleteRecords == {CompleteB, CompleteD}
WrittenAs(c) == IF c = CompleteD THEN Indented(CandLines(c)) ELSE CandLines(c)

\* C4: a response made of n complete records ('Q:', 'A)' to 'D)', 'Correct:'
\* with a letter of ABCD, 'Explanation:') is parsed into exactly those n
\* questions in input order; a record with 4 options and correct = "B" is kept.
C4_CompleteRecordsKept ==
    pc \in {"done", "raised"} =>
        \A rs \in SeqsUpTo(CompleteRecords, MaxBlocks) :
            (rs # <<>> /\ text = JoinLines(Flatten([i \in 1..Len(rs) |-> WrittenAs(rs[i])]))) =>
                /\ pc = "done"
                /\ result = [i \in 1..Len(rs) |-> QuestionOf(rs[i])]

\* the candidates of a response, read off its lines: a candidate is a 'Q:'
\* line with the lines up to the next 'Q:' line, its options every option
\* line among them in order, its correct value the last 'Correct:' line's
StrippedLines == [i \in 1..Len(lines) |-> Strip(lines[i])]
QIndexes == {i \in 1..Len(lines) : IsQLine(StrippedLines[i])}
SegmentEnd(j) ==
    IF \E k \in QIndexes : k > j
    THEN (CHOOSE k \in QIndexes : k > j /\ \A m \in QIndexes : m > j => k <= m) - 1
    ELSE Len(lines)
Segment(j) == SubSeq(StrippedLines, j + 1, SegmentEnd(j))
SegOptions(j) ==
    LET os == SelectSeq(Segment(j), IsOptionLine)
    IN  [i \in 1..Len(os) |-> Strip(Drop(os[i], 3))]
SegCorrects(j) == SelectSeq(Segment(j), IsCorrectLine)
SegHasCorrect(j) == SegCorrects(j) # <<>>
SegCorrect(j) ==
    LET cs == SegCorrects(j) IN Strip(Split(cs[Len(cs)], Colon)[2])

\* the returned question q is candidate j, whole
IsCandidate(q, j) ==
    /\ q.question = Strip(Drop(StrippedLines[j], 2))
    /\ q.options = SegOptions(j)
    /\ SegHasCorrect(j)
    /\ q.correct = SegCorrect(j)

\* C5: whenever parse_test_questions returns, every returned question has
\* exactly 4 options and a correct value that is one character of ABCD, and
\* is a candidate of the input kept whole: a candidate with 3 options, with
\* more than 4, or with correct = "E" is not returned, padded or truncated.
C5_ReturnedQuestionsValid ==
    pc = "done" =>
        \A i \in 1..Len(result) :
            /\ Len(result[i].options) = 4
            /\ result[i].correct \in {<<"A">>, <<"B">>, <<"C">>, <<"D">>}
            /\ \E j \in QIndexes : IsCandidate(result[i], j)

\* a question was returned from a response that also held a candidate with
\* 3 or 5 options or with correct = "E", which is not among the result
C5_Witness ==
    /\ pc = "done"
    /\ result # <<>>
    /\ \E j \in QIndexes :
          /\ SegHasCorrect(j)
          /\ Len(SegOptions(j)) \in {3, 5} \/ SegCorrect(j) = <<"E">>
          /\ \A i \in 1..Len(result) : ~IsCandidate(result[i], j)

\* C6: for every input text the parser returns a list and raises nothing.
C6_ParsersNeverRaise == pc # "raised" /\ raised = NoExc

\* the card a 'Front:' line followed by its 'Back:' line stands for
Card(f, b) == [keys |-> {"front", "back"}, front |-> f, back |-> b]
Pairs == FrontTexts \X BackTexts
PairLines(ps) == Flatten([i \in 1..Len(ps) |-> <<FrontLine(ps[i][1]), BackLine(ps[i][2])>>])

\* C7: a response made of n 'Front:' lines each followed by its 'Back:' line
\* is parsed into exactly n cards in input order, card i holding the i-th
\* front and back text; "Front: X\nBack: Y\nFront: Z\nBack: W" gives the
\* two cards {X, Y} and {Z, W}.
C7_PairsBecomeCards ==
    pc \in {"done", "raised"} =>
        /\ \A ps \in SeqsUpTo(Pairs, MaxCardLines \div 2) :
              (ps # <<>> /\ text = JoinLines(PairLines(ps))) =>
                  /\ pc = "done"
                  /\ result = [i \in 1..Len(ps) |-> Card(ps[i][1], ps[i][2])]
        /\ text = JoinLines(<<FrontLine(<<"X">>), BackLine(<<"Y">>),
                              FrontLine(<<"Z">>), BackLine(<<"W">>)>>) =>
              result = <<Card(<<"X">>, <<"Y">>), Card(<<"Z">>, <<"W">>)>>

\* the four-line example was parsed into its two cards
C7_Witness ==
    /\ pc = "done"
    /\ text = JoinLines(<<FrontLine(<<"X">>), BackLine(<<"Y">>),
                          FrontLine(<<"Z">>), BackLine(<<"W">>)>>)
    /\ Len(result) = 2

\* C8: every card parse_flashcards returns holds both a front and a back.
C8_CardsHaveBothFields ==
    pc = "done" =>
        \A i \in 1..Len(result) : {"front", "back"} \subseteq result[i].keys


\* the scripted operation fails with the quota error at every call
AlwaysQuota == \A i \in 1..Len(op) : op[i] = RaiseOutcome(QuotaMsg)

\* C11: query_gemini_api calls the operation at most max_retries times; when
\* every attempt fails with the quota error it ends after exactly max_retries
\* attempts with the retry-exhaustion error, which is not the API's error.
C11_ExhaustsAfterMaxRetries ==
    /\ calls <= max_retries
    /\ (pc = "done" /\ AlwaysQuota) =>
          /\ q_status = "raised"
          /\ calls = max_retries
          /\ q_exc = RetriesError(op[max_retries].exc)
          /\ q_exc # op[max_retries].exc

\* C12 as stated: the delay is pre-emptive, a sleep precedes every call of
\* the operation, the first one included.
C12_SleepBeforeEveryCall == Len(slept) >= calls

\* C12 as amended: the delay is not pre-emptive. query_gemini_api never has
\* slept more often than it has called the operation, so no sleep precedes
\* the first call, and a first attempt that succeeds has paid no delay.
C12_NoSleepBeforeFirstCall ==
    /\ Len(slept) <= calls
    /\ (q_status = "returned" /\ calls = 1) => slept = <<>>

\* the first attempt succeeded and nothing was slept
C12_Witness == pc = "done" /\ q_status = "returned" /\ calls = 1 /\ slept = <<>>

\* a line of the form "<index>. <topic text>"
DayIndexes == {ToString(d) : d \in 1..(MaxTotalDays + batch_size + 1)}
IsIndexedLine(line) ==
    Len(line) >= 3 /\ line[1] \in DayIndexes /\ line[2] = "." /\ line[3] = " "
IndexedTopics(response) ==
    LET kept == SelectSeq(Split(response, <<NL>>), IsIndexedLine)
    IN  [i \in 1..Len(kept) |-> Strip(Drop(kept[i], 3))]

\* C15: the topics of a batch response are exactly its lines of the form
\* "<index>. <topic text>"; a preamble sentence that contains ". " is not
\* counted and does not enter the study plan.
C15_TopicsAreIndexedLines ==
    /\ q_status = "returned" => Topics(q_text) = IndexedTopics(q_text)
    /\ \A i \in 1..Len(study_plan) :
          study_plan[i] # Strip(SplitOnce1(DottedPreamble, DotSpace))


\* C13: parsing is pure: the same response text parsed twice gives the same
\* outcome (the same list, or the same exception), whatever was parsed in
\* between.
C13_ParsingIsPure ==
    \A i, j \in 1..Len(history) :
        inputs[i] = inputs[j] => history[i] = history[j]

\* a response that yields records was parsed, then another response with
\* another outcome, then the first response again
C13_Witness ==
    /\ Len(history) = 3
    /\ inputs[2] # inputs[1]
    /\ history[1].returned
    /\ history[1].value # <<>>
    /\ history[2] # history[1]


\* the plan of every stored and every saved course is as long as its max_day
PlansComplete(store) ==
    \A c \in DOMAIN store :
        /\ Len(store[c].study_plan) = store[c].max_day
        /\ store[c].max_day \in Durations

\* C14: after any sequence of course creations every course in the session
\* and in its session file has a study plan as long as its max_day, which is
\* the duration asked for; a generation that failed adds no course, writes no
\* file and leaves the courses there are unchanged.
C14_StoredPlansComplete ==
    /\ [](PlansComplete(session_state.conversations) /\ PlansComplete(files))
    /\ [][(pc = "done" /\ ~GenSucceeded) =>
             /\ session_state'.conversations = session_state.conversations
             /\ files' = files]_vars
    /\ [][(pc = "done" /\ GenSucceeded) =>
             /\ session_state'.conversations[course].max_day = requested_days
             /\ files'[course] = session_state'.conversations[course]
             /\ \A c \in DOMAIN session_state.conversations :
                   session_state'.conversations[c] = session_state.conversations[c]]_vars

\* a generation has just failed while a course of more than the smallest
\* duration is stored and saved
C14_Witness ==
    /\ pc = "done"
    /\ ret = <<>>
    /\ errors # <<>>
    /\ \E c \in DOMAIN session_state.conversations :
          /\ session_state.conversations[c].max_day = min_value + 1
          /\ files[c] = session_state.conversations[c]

\* C16: in a new session (the first run, or the run after Logout) every
\* course with a session file is in the session's courses with the saved
\* record.
C16_SavedCoursesLoaded ==
    ~session_state.user_authenticated =>
        \A c \in DOMAIN files :
            /\ c \in DOMAIN session_state.conversations
            /\ session_state.conversations[c] = files[c]


\* C17: after any sequence of Previous Day and Next Day events the current
\* day of a course is between 1 and its max_day, and its session file holds
\* the same current_day as the session.
C17_DayInRangeAndSaved ==
    \A c \in DOMAIN session_state.conversations :
        /\ 1 <= session_state.conversations[c].current_day
        /\ session_state.conversations[c].current_day <= session_state.conversations[c].max_day
        /\ c \in DOMAIN files
        /\ files[c].current_day = session_state.conversations[c].current_day

\* Next Day was pressed until the last day of the longer course, saved
C17_Witness ==
    \E c \in DOMAIN session_state.conversations :
        /\ session_state.conversations[c].max_day = min_value + 1
        /\ session_state.conversations[c].current_day = min_value + 1
        /\ files[c].current_day = min_value + 1


\* C18: after any sequence of flashcard events, whenever the flashcard
\* screen shows a deck that is not empty, 0 <= current_card < len(deck): the
\* card lookup is never out of range.
C18_CardIndexInRange ==
    /\ shown # "IndexError"
    /\ (menu = "Flashcards" /\ Has("current_flashcards")) =>
          LET deck == session_state.flashcards[session_state.current_flashcards]
          IN  deck # <<>> =>
                 /\ 0 <= session_state.current_card
                 /\ session_state.current_card < Len(deck)


\* the pages display_test() puts up
DisplayTestPages ==
    {"question", "Test completed!",
     "Test completed. You can retake the test or go back to the course content."}

\* C20: after create_new_test succeeded (the test appended, current_test set
\* to it) the next run of the Tests screen shows that test through
\* display_test and does not enter test creation again.
C20_CreatedTestIsDisplayed ==
    (pc = "page" /\ menu = "Tests" /\ Has("current_test")) =>
        shown \in DisplayTestPages


\* every test of every course
ScoresInRange ==
    \A c \in DOMAIN session_state.tests :
        \A i \in 1..Len(session_state.tests[c]) :
            /\ 0 <= session_state.tests[c][i].score
            /\ session_state.tests[c][i].score <= Len(session_state.tests[c][i].questions)

\* C19: after any sequence of test events every test has
\* 0 <= score <= number of its questions, and a test that was just created
\* or selected is presented from its first question; the second part is
\* stated for the tests nobody has answered yet.
C19_ScoresAndFirstQuestion ==
    /\ ScoresInRange
    /\ (Has("current_test") /\ Has("current_question")
          /\ CurrentTest(session_state).user_answers = EmptyDict)
       => /\ session_state.current_question = 0
          /\ shown = "question"


\* what login_page() puts up
LoginPages == {"login_page", "Invalid credentials"}

\* a press of Login with credentials authenticate() accepts
AcceptedLogin ==
    /\ shown \in LoginPages
    /\ \E cr \in Credentials :
          /\ authenticate(cr[1], cr[2])
          /\ cr = <<"user", "pass">>
    /\ session_state' = [session_state EXCEPT !.user_authenticated = TRUE]

====
